---- MODULE Spec2Model ----
(***************************************************************************)
(* A model of the Shhed SDK client (src/src/Shhed.ts, src/src/types.ts).   *)
(*                                                                         *)
(* Strings are sequences of tokens.  Data supplied by the caller or the    *)
(* server is written one character per token, so that startsWith, the      *)
(* trailing-slash replace and encodeURIComponent work on characters; a     *)
(* literal of the source is one token.  Template literals and + are \o.    *)
(* JavaScript values are records [t, s]: t is the typeof, s the string.    *)
(***************************************************************************)
EXTENDS Integers, Sequences, FiniteSets, Bags, TLC

VARIABLES configObj, client, validated, ctorError, mutations, calls, settled, retry

vars == <<configObj, client, validated, ctorError, mutations, calls, settled, retry>>

(* ---------------------------- bounds ---------------------------------- *)

MaxCalls == 2
MaxMutations == 1
MaxNameLen == 3
MaxRetries == 3

(* ------------------------- JavaScript values -------------------------- *)

Undefined == [t |-> "undefined", s |-> <<>>]
Str(s) == [t |-> "string", s |-> s]
True == [t |-> "boolean", s |-> <<"true">>]

\* ToBoolean: undefined and the empty string are falsy
Truthy(v) == \/ v.t = "boolean"
             \/ v.t = "string" /\ v.s # <<>>

\* ToString, as a template literal applies it
ToStr(v) == IF v.t = "undefined" THEN <<"undefined">> ELSE v.s

\* String.prototype.startsWith
StartsWith(s, p) == /\ Len(s) >= Len(p)
                    /\ SubSeq(s, 1, Len(p)) = p

\* variant: the endpoint used as it is
StripNothing(s) == s

\* s.replace(/\/$/, ''): drops one trailing slash
StripTrailingSlash(s) ==
  IF Len(s) > 0 /\ s[Len(s)] = "/" THEN SubSeq(s, 1, Len(s) - 1) ELSE s

(* ------------------------------ URL ----------------------------------- *)

AlphaChars == {"a","b","c","d","e","f","g","h","i","j","k","l","m",
               "n","o","p","q","r","s","t","u","v","w","x","y","z"}
SchemeChars == AlphaChars \cup {"0","1","2","3","4","5","6","7","8","9","+","-","."}
SpecialSchemes == {<<"h","t","t","p">>, <<"h","t","t","p","s">>}

RECURSIVE DropSlashes(_)
DropSlashes(s) == IF s # <<>> /\ s[1] = "/" THEN DropSlashes(Tail(s)) ELSE s

\* new URL(s) without a base: s needs a scheme, and a special scheme needs a host
ParsesAsURL(s) ==
  \E i \in 2..Len(s) :
     /\ s[i] = ":"
     /\ s[1] \in AlphaChars
     /\ \A j \in 1..(i-1) : s[j] \in SchemeChars
     /\ SubSeq(s, 1, i-1) \in SpecialSchemes
          => DropSlashes(SubSeq(s, i+1, Len(s))) # <<>>

(* --------------------------- encodeURIComponent ----------------------- *)

LoneSurrogate == "\\uD800"

\* variant: encodeURI, which leaves the reserved characters of a URL alone
EncodeCharURI(c) ==
  CASE c = " " -> <<"%","2","0">>
    [] c = "%" -> <<"%","2","5">>
    [] OTHER   -> <<c>>

EncodeChar(c) ==
  CASE c = " " -> <<"%","2","0">>
    [] c = "/" -> <<"%","2","F">>
    [] c = "?" -> <<"%","3","F">>
    [] c = "#" -> <<"%","2","3">>
    [] c = "%" -> <<"%","2","5">>
    [] OTHER   -> <<c>>

RECURSIVE encodeURIComponent(_)
encodeURIComponent(s) ==
  IF s = <<>> THEN <<>> ELSE EncodeChar(Head(s)) \o encodeURIComponent(Tail(s))

\* encodeURIComponent throws URIError on a lone surrogate
EncodeThrows(s) == \E i \in 1..Len(s) : s[i] = LoneSurrogate

(* ------------------------------ errors -------------------------------- *)

NoStatus == -1
NoBody == [kind |-> "none", detail |-> Undefined, key_name |-> Undefined,
           key_value |-> Undefined, project_id |-> Undefined]

\* a thrown value; isError is `instanceof Error`
Thrown(name, message) ==
  [isError |-> TRUE, name |-> name, message |-> message,
   statusCode |-> NoStatus, response |-> NoBody]

ShhedSDKError(message, statusCode, response) ==
  [isError |-> TRUE, name |-> "ShhedSDKError", message |-> message,
   statusCode |-> statusCode, response |-> response]

IsShhedSDKError(e) == e.name = "ShhedSDKError"

\* variant: misuse reported with the typed error
PlainErrorTyped(message) == ShhedSDKError(message, 0, NoBody)

\* new Error(message)
PlainError(message) == Thrown("Error", message)

NoError == [isError |-> FALSE, name |-> "none", message |-> <<>>,
            statusCode |-> NoStatus, response |-> NoBody]

(* --------------------------- configuration ---------------------------- *)

AK1 == <<"a","k","_","1">>
XK1 == <<"x","k","_","1">>
SK1 == <<"s","1">>
P1 == <<"p","1">>
EpBad == <<"b","a","d">>
EpHost == <<"h","t","t","p",":","/","/","e">>
EpSlash == <<"h","t","t","p",":","/","/","e","/">>
EpNoHost == <<"h","t","t","p",":","/","/">>
EpSlashes == <<"h","t","t","p",":","/","/","e","/","/">>

AccessKeys == {Undefined, Str(<<>>), Str(AK1), Str(XK1), Str(<<"a","k">>)}
SecretKeys == {Undefined, Str(<<>>), Str(SK1)}
ProjectIds == {Undefined, Str(<<>>), Str(P1)}
Endpoints == {Undefined, Str(<<>>), Str(EpBad), Str(EpNoHost), Str(EpHost), Str(EpSlash),
              Str(EpSlashes)}

ShhedConfigFields == [access_key |-> AccessKeys, secret_key |-> SecretKeys,
                      projectId |-> ProjectIds, endpoint |-> Endpoints]

ShhedConfig == [access_key : AccessKeys, secret_key : SecretKeys,
                projectId : ProjectIds, endpoint : Endpoints]

DefaultEndpoint == <<"https://api.shhed.io">>

\* variant: the prefix check placed before the projectId check
validateConfigPrefixFirst(config) ==
  IF ~Truthy(config.access_key)
    THEN PlainError(<<"Shhed access_key is required">>)
  ELSE IF ~StartsWith(config.access_key.s, <<"a","k","_">>)
    THEN PlainError(<<"Shhed access_key must start with \"ak_\"">>)
  ELSE IF ~Truthy(config.projectId)
    THEN PlainError(<<"Shhed projectId is required">>)
  ELSE IF Truthy(config.endpoint) /\ ~ParsesAsURL(config.endpoint.s)
    THEN PlainError(<<"Shhed endpoint must be a valid URL">>)
  ELSE NoError

\* validateConfig: the error it throws, or NoError
validateConfig(config) ==
  IF ~Truthy(config.access_key)
    THEN PlainError(<<"Shhed access_key is required">>)
  ELSE IF ~Truthy(config.projectId)
    THEN PlainError(<<"Shhed projectId is required">>)
  ELSE IF ~StartsWith(config.access_key.s, <<"a","k","_">>)
    THEN PlainError(<<"Shhed access_key must start with \"ak_\"">>)
  ELSE IF Truthy(config.endpoint) /\ ~ParsesAsURL(config.endpoint.s)
    THEN PlainError(<<"Shhed endpoint must be a valid URL">>)
  ELSE NoError

NoClient == [constructed |-> FALSE, endpoint |-> <<>>]

\* config.endpoint || 'https://api.shhed.io'
ResolveEndpoint(config) ==
  IF Truthy(config.endpoint) THEN config.endpoint.s ELSE DefaultEndpoint

\* this.config is the caller's object itself, not a copy of it
ThisConfig == configObj

(* ------------------------------ wire ---------------------------------- *)

K1 == <<"K">>
KSpace == <<"A"," ","B">>
KBad == <<LoneSurrogate>>
KeyNames == {<<>>, K1, KSpace, KBad}

V1 == <<"v","1">>
D1 == <<"n","o">>

\* status line of a response: HTTP/2 responses carry an empty statusText
StatusLines == {[status |-> 200, statusText |-> <<"OK">>],
                [status |-> 404, statusText |-> <<"Not Found">>],
                [status |-> 500, statusText |-> <<>>]}

Obj(detail, key_name, key_value) ==
  [kind |-> "object", detail |-> detail, key_name |-> key_name,
   key_value |-> key_value, project_id |-> Undefined]
InvalidJson == [NoBody EXCEPT !.kind = "invalid"]
JsonNull == [NoBody EXCEPT !.kind = "null"]

\* what the server may put in a body
Bodies == {InvalidJson, JsonNull,
           Obj(Undefined, Undefined, Undefined),
           Obj(Str(D1), Undefined, Undefined),
           Obj(Str(<<>>), Undefined, Undefined),
           Obj(Undefined, Str(K1), Str(V1))}

\* what fetch rejects with: cross-fetch rejects with instances of Error
TransportErrors == {Thrown("TypeError", <<"Failed to fetch">>),
                    Thrown("FetchError", <<"ECONNREFUSED">>)}

\* Response.ok
Ok(status) == status >= 200 /\ status <= 299

(* ------------------------------- calls -------------------------------- *)

Pending == [state |-> "pending", value |-> Undefined, error |-> NoError]
Fulfilled(v) == [state |-> "fulfilled", value |-> v, error |-> NoError]
Rejected(e) == [state |-> "rejected", value |-> Undefined, error |-> e]

\* a call in flight: pc is the await it is suspended at
NoCall == [op |-> "none", keyName |-> <<>>, pc |-> "idle", sent |-> <<>>,
           status |-> 0, statusText |-> <<>>]

\* the call that settled last, as its caller observes it
NoSettled == [op |-> "none", keyName |-> <<>>, sent |-> <<>>,
              responded |-> FALSE, status |-> 0, statusText |-> <<>>,
              body |-> NoBody, bodyUsed |-> FALSE, rejection |-> NoError,
              result |-> Pending]

\* rejection is what fetch rejected with, NoError when it resolved or was not called
Settle(c, responded, body, bodyUsed, rejection, result) ==
  [op |-> c.op, keyName |-> c.keyName, sent |-> c.sent,
   responded |-> responded,
   status |-> IF responded THEN c.status ELSE 0,
   statusText |-> IF responded THEN c.statusText ELSE <<>>,
   body |-> body, bodyUsed |-> bodyUsed, rejection |-> rejection, result |-> result]

\* the calls in flight are a bag: two calls with the same argument at the same
\* await are two elements of it
InFlight == BagToSet(calls)
Add(c) == calls (+) SetToBag({c})
\* variant: the request of a settled call sent again
RemoveResend(c) == calls
\* variant: settling one call drops the others
RemoveAll(c) == EmptyBag
Remove(c) == calls (-) SetToBag({c})
Replace(c, d) == (calls (-) SetToBag({c})) (+) SetToBag({d})

\* getKeyWithRetry (examples/typescript-usage.ts) before it is called: lastError
\* is declared without a value, NoError stands for its undefined
NoRetry == [pc |-> "idle", keyName |-> <<>>, maxRetries |-> 0, attempt |-> 0,
            gets |-> 0, lastError |-> NoError, delay |-> 0, outcome |-> Pending]

Init ==
  /\ configObj \in ShhedConfig
  /\ client = NoClient
  /\ validated = configObj
  /\ ctorError = NoError
  /\ mutations = 0
  /\ calls = EmptyBag
  /\ settled = NoSettled
  /\ retry = NoRetry

\* new Shhed(config)
Construct ==
  /\ ~client.constructed
  /\ ctorError = NoError
  /\ LET e == validateConfig(configObj) IN
       IF e # NoError
         THEN /\ ctorError' = e
              /\ UNCHANGED client
         ELSE /\ client' = [constructed |-> TRUE, endpoint |-> ResolveEndpoint(configObj)]
              /\ UNCHANGED ctorError
  /\ validated' = configObj
  /\ UNCHANGED <<configObj, mutations, calls, settled>>

\* the caller assigns to a property of the object it passed to the constructor
MutateConfig(field, v) ==
  /\ client.constructed
  /\ mutations < MaxMutations
  /\ v # configObj[field]
  /\ configObj' = [configObj EXCEPT ![field] = v]
  /\ mutations' = mutations + 1
  /\ UNCHANGED <<client, validated, ctorError, calls, settled>>

(* -------------------------------- get --------------------------------- *)

GetUrl(keyName) ==
  StripTrailingSlash(client.endpoint) \o <<"/v1/keys/">> \o encodeURIComponent(keyName)

\* variant: the secret key left out of the token
AuthTokenAccessOnly == ToStr(ThisConfig.access_key)

\* variant: the secret key tested for being defined, not for being empty
AuthTokenIfDefined ==
  IF ThisConfig.secret_key.t = "string"
    THEN ToStr(ThisConfig.access_key) \o <<":">> \o ToStr(ThisConfig.secret_key)
    ELSE ToStr(ThisConfig.access_key)

AuthToken ==
  IF Truthy(ThisConfig.secret_key)
    THEN ToStr(ThisConfig.access_key) \o <<":">> \o ToStr(ThisConfig.secret_key)
    ELSE ToStr(ThisConfig.access_key)

GetHeaders ==
  ("Authorization" :> Str(<<"Bearer ">> \o AuthToken))
    @@ ("X-Project-ID" :> ThisConfig.projectId)
    @@ ("Content-Type" :> Str(<<"application/json">>))

GetRequest(keyName) ==
  [method |-> "GET", url |-> GetUrl(keyName), headers |-> GetHeaders]

\* variant: the caught error's text left out of the message
GetCatchNoText(keyName, error) ==
  IF IsShhedSDKError(error) THEN error
  ELSE ShhedSDKError(<<"Failed to fetch key \"">> \o keyName \o <<"\": Unknown error">>,
                     0, NoBody)

\* variant: the error of the JSON parser let through
GetCatchNetworkOnly(keyName, error) ==
  IF IsShhedSDKError(error) \/ error.name = "SyntaxError" THEN error
  ELSE ShhedSDKError(<<"Failed to fetch key \"">> \o keyName \o <<"\": ">> \o error.message,
                     0, NoBody)

\* variant: only typed errors handled, anything else rethrown as caught
GetCatchRethrow(keyName, error) == error

\* the catch clause of get: what it throws for the caught value
GetCatch(keyName, error) ==
  IF IsShhedSDKError(error) THEN error
  ELSE IF error.isError
    THEN ShhedSDKError(<<"Failed to fetch key \"">> \o keyName \o <<"\": ">> \o error.message,
                       0, NoBody)
  ELSE ShhedSDKError(<<"Failed to fetch key \"">> \o keyName \o <<"\": Unknown error">>,
                     0, NoBody)

\* await response.json(): the parsed body, or the SyntaxError it rejects with
JsonParse(body) ==
  IF body.kind = "invalid"
    THEN Rejected(Thrown("SyntaxError", <<"Unexpected token">>))
    ELSE Fulfilled(body)

\* variant: the wrong field of the record returned
GetTryBodyKeyName(status, statusText, responseData) ==
  IF ~Ok(status)
    THEN IF responseData.kind = "null"
           THEN Rejected(Thrown("TypeError", <<"Cannot read properties of null">>))
           ELSE Rejected(ShhedSDKError(
                  IF Truthy(responseData.detail)
                    THEN responseData.detail.s
                    ELSE <<"HTTP ">> \o <<ToString(status)>> \o <<": ">> \o statusText,
                  status, responseData))
    ELSE IF responseData.kind = "null"
           THEN Rejected(Thrown("TypeError", <<"Cannot read properties of null">>))
           ELSE Fulfilled(responseData.key_name)

\* the try block of get from the parsed body on: a return or a throw
GetTryBody(status, statusText, responseData) ==
  IF ~Ok(status)
    THEN IF responseData.kind = "null"
           THEN Rejected(Thrown("TypeError", <<"Cannot read properties of null">>))
           ELSE Rejected(ShhedSDKError(
                  IF Truthy(responseData.detail)
                    THEN responseData.detail.s
                    ELSE <<"HTTP ">> \o <<ToString(status)>> \o <<": ">> \o statusText,
                  status, responseData))
    ELSE IF responseData.kind = "null"
           THEN Rejected(Thrown("TypeError", <<"Cannot read properties of null">>))
           ELSE Fulfilled(responseData.key_value)

\* variant: the check of the key name left out
KeyNameNeverMissing(keyName) == FALSE

\* !keyName
KeyNameMissing(keyName) == ~Truthy(Str(keyName))

\* get up to its first await
GetStart(keyName, limit) ==
  /\ client.constructed
  /\ IF KeyNameMissing(keyName)
       THEN /\ settled' = Settle([NoCall EXCEPT !.op = "get", !.keyName = keyName],
                                 FALSE, NoBody, FALSE, NoError,
                                 Rejected(PlainError(<<"Key name is required">>)))
            /\ UNCHANGED calls
     ELSE IF EncodeThrows(keyName)
       THEN /\ settled' = Settle([NoCall EXCEPT !.op = "get", !.keyName = keyName],
                                 FALSE, NoBody, FALSE, NoError,
                                 Rejected(Thrown("URIError", <<"URI malformed">>)))
            /\ UNCHANGED calls
     ELSE /\ BagCardinality(calls) < limit
          /\ calls' = Add([NoCall EXCEPT !.op = "get", !.keyName = keyName, !.pc = "fetch",
                                         !.sent = <<GetRequest(keyName)>>])
          /\ UNCHANGED settled
  /\ UNCHANGED <<configObj, client, validated, ctorError, mutations>>

\* fetch rejects: the request never completed
GetFetchRejected(c, error) ==
  /\ c \in InFlight /\ c.op = "get" /\ c.pc = "fetch"
  /\ settled' = Settle(c, FALSE, NoBody, FALSE, error,
                       Rejected(GetCatch(c.keyName, error)))
  /\ calls' = Remove(c)
  /\ UNCHANGED <<configObj, client, validated, ctorError, mutations>>

\* fetch resolves with the status line; get goes on to await response.json()
GetFetchResolved(c, line) ==
  /\ c \in InFlight /\ c.op = "get" /\ c.pc = "fetch"
  /\ calls' = Replace(c, [c EXCEPT !.pc = "json", !.status = line.status,
                                   !.statusText = line.statusText])
  /\ UNCHANGED <<configObj, client, validated, ctorError, mutations, settled>>

\* response.json() settles on the body the server sent
GetJsonSettled(c, body) ==
  /\ c \in InFlight /\ c.op = "get" /\ c.pc = "json"
  /\ LET parsed == JsonParse(body)
         outcome == IF parsed.state = "rejected" THEN parsed
                    ELSE GetTryBody(c.status, c.statusText, body)
         result == IF outcome.state = "rejected"
                     THEN Rejected(GetCatch(c.keyName, outcome.error))
                     ELSE outcome
     IN settled' = Settle(c, TRUE, body, TRUE, NoError, result)
  /\ calls' = Remove(c)
  /\ UNCHANGED <<configObj, client, validated, ctorError, mutations>>

(* -------------------------------- test -------------------------------- *)

TestUrl == StripTrailingSlash(client.endpoint) \o <<"/health">>

\* variant: the headers of get reused
TestRequestWithAuth ==
  [method |-> "GET", url |-> TestUrl, headers |-> GetHeaders]

TestRequest ==
  [method |-> "GET", url |-> TestUrl,
   headers |-> ("Content-Type" :> Str(<<"application/json">>))]

\* variant: the caught value rethrown as it is
TestCatchRethrow(error) == error

\* the catch clause of test
TestCatch(error) ==
  IF IsShhedSDKError(error) THEN error
  ELSE ShhedSDKError(<<"Connection test failed: ">>
                       \o (IF error.isError THEN error.message ELSE <<"Unknown error">>),
                     0, NoBody)

\* variant: the status left out of the error
TestTryBodyNoStatus(status) ==
  IF ~Ok(status)
    THEN Rejected(ShhedSDKError(<<"Health check failed: HTTP ">> \o <<ToString(status)>>,
                                0, NoBody))
    ELSE Fulfilled(True)

\* the try block of test once fetch has resolved
TestTryBody(status) ==
  IF ~Ok(status)
    THEN Rejected(ShhedSDKError(<<"Health check failed: HTTP ">> \o <<ToString(status)>>,
                                status, NoBody))
    ELSE Fulfilled(True)

TestStart(limit) ==
  /\ client.constructed
  /\ BagCardinality(calls) < limit
  /\ calls' = Add([NoCall EXCEPT !.op = "test", !.pc = "fetch", !.sent = <<TestRequest>>])
  /\ UNCHANGED <<configObj, client, validated, ctorError, mutations, settled>>

TestFetchRejected(c, error) ==
  /\ c \in InFlight /\ c.op = "test" /\ c.pc = "fetch"
  /\ settled' = Settle(c, FALSE, NoBody, FALSE, error, Rejected(TestCatch(error)))
  /\ calls' = Remove(c)
  /\ UNCHANGED <<configObj, client, validated, ctorError, mutations>>

\* fetch resolves; test never reads the body the server sent
TestFetchResolved(c, line, body) ==
  /\ c \in InFlight /\ c.op = "test" /\ c.pc = "fetch"
  /\ LET d == [c EXCEPT !.status = line.status, !.statusText = line.statusText]
         outcome == TestTryBody(line.status)
         result == IF outcome.state = "rejected"
                     THEN Rejected(TestCatch(outcome.error))
                     ELSE outcome
     IN settled' = Settle(d, TRUE, body, FALSE, NoError, result)
  /\ calls' = Remove(c)
  /\ UNCHANGED <<configObj, client, validated, ctorError, mutations>>

(* ------------------------- getKeyWithRetry ---------------------------- *)

clientVars == <<configObj, client, validated, ctorError, mutations, calls, settled>>

\* the statuses of the retry example in DEPLOYMENT_CHECKLIST.md
NoRetryStatusDoc == {404, 401}
\* error.statusCode === 404 || error.statusCode === 401 || error.statusCode === 403
NoRetryStatus == {404, 401, 403}

\* Math.pow(2, attempt) * 1000
Backoff(attempt) == (2 ^ attempt) * 1000

\* getKeyWithRetry(keyName, maxRetries): let lastError; attempt = 1
RetryCall(keyName, maxRetries) ==
  /\ client.constructed
  /\ retry.pc = "idle"
  /\ retry' = [NoRetry EXCEPT !.pc = "test", !.keyName = keyName,
                              !.maxRetries = maxRetries, !.attempt = 1]
  /\ UNCHANGED clientVars

\* attempt <= maxRetries: await this.shhed.get(keyName)
RetryAttempt ==
  /\ retry.pc = "test"
  /\ retry.attempt <= retry.maxRetries
  /\ GetStart(retry.keyName, 1)
  /\ retry' = [retry EXCEPT !.pc = "await", !.gets = @ + 1]

\* the loop is left: throw lastError!
RetryExhausted ==
  /\ retry.pc = "test"
  /\ ~(retry.attempt <= retry.maxRetries)
  /\ retry' = [retry EXCEPT !.pc = "done", !.outcome = Rejected(retry.lastError)]
  /\ UNCHANGED clientVars

\* get resolved: return value
RetryReturn ==
  /\ retry.pc = "await"
  /\ calls = EmptyBag
  /\ settled.result.state = "fulfilled"
  /\ retry' = [retry EXCEPT !.pc = "done", !.outcome = Fulfilled(settled.result.value)]
  /\ UNCHANGED clientVars

\* get rejected: the catch clause of the loop body
RetryCatch ==
  /\ retry.pc = "await"
  /\ calls = EmptyBag
  /\ settled.result.state = "rejected"
  /\ LET error == settled.result.error IN
       IF IsShhedSDKError(error) /\ error.statusCode \in NoRetryStatus
         THEN retry' = [retry EXCEPT !.lastError = error, !.pc = "done",
                                     !.outcome = Rejected(error)]
       ELSE IF retry.attempt < retry.maxRetries
         THEN retry' = [retry EXCEPT !.lastError = error, !.pc = "delay",
                                     !.delay = Backoff(retry.attempt)]
       ELSE retry' = [retry EXCEPT !.lastError = error, !.pc = "test",
                                   !.attempt = @ + 1]
  /\ UNCHANGED clientVars

\* the timer of the backoff fires: attempt++
RetryDelayDone ==
  /\ retry.pc = "delay"
  /\ retry' = [retry EXCEPT !.pc = "test", !.attempt = @ + 1]
  /\ UNCHANGED clientVars

(* --------------------------- specifications --------------------------- *)

\* limit is the number of calls the callers keep in flight
CallStep(limit) ==
  \/ \E keyName \in KeyNames : GetStart(keyName, limit)
  \/ \E c \in InFlight, error \in TransportErrors : GetFetchRejected(c, error)
  \/ \E c \in InFlight, line \in StatusLines : GetFetchResolved(c, line)
  \/ \E c \in InFlight, body \in Bodies : GetJsonSettled(c, body)
  \/ TestStart(limit)
  \/ \E c \in InFlight, error \in TransportErrors : TestFetchRejected(c, error)
  \/ \E c \in InFlight, line \in StatusLines, body \in Bodies : TestFetchResolved(c, line, body)

\* a client used by concurrent callers that leave the configuration alone
Next ==
  /\ \/ Construct
     \/ CallStep(MaxCalls)
  /\ UNCHANGED retry

Spec == Init /\ [][Next]_vars

\* one caller that also assigns to the configuration object it passed in
NextCaller ==
  /\ \/ Construct
     \/ \E field \in DOMAIN configObj :
          \E v \in ShhedConfigFields[field] : MutateConfig(field, v)
     \/ CallStep(1)
  /\ UNCHANGED retry

\* the two configurations of the test suite
validConfig == [access_key |-> Str(AK1), secret_key |-> Str(SK1),
                projectId |-> Str(P1), endpoint |-> Undefined]
publicConfig == [validConfig EXCEPT !.secret_key = Undefined]

InitCaller == Init /\ configObj \in {validConfig, publicConfig}

SpecCaller == InitCaller /\ [][NextCaller]_vars

\* every well-formed key name of at most MaxNameLen characters, on a client
\* constructed with validConfig
NameChars == {"a", " ", "/", "?", "#", "%"}
Names == UNION {[1..n -> NameChars] : n \in 0..MaxNameLen}

InitEncode ==
  /\ configObj = validConfig
  /\ client = [constructed |-> TRUE, endpoint |-> ResolveEndpoint(validConfig)]
  /\ validated = validConfig
  /\ ctorError = NoError
  /\ mutations = 0
  /\ calls = EmptyBag
  /\ settled = NoSettled
  /\ retry = NoRetry

NextEncode ==
  /\ \/ \E keyName \in Names : GetStart(keyName, 1)
     \/ \E c \in InFlight, line \in StatusLines : GetFetchResolved(c, line)
  /\ UNCHANGED retry

SpecEncode == InitEncode /\ [][NextEncode]_vars

\* getKeyWithRetry on a ConfigService constructed with validConfig; the server
\* also answers 401 and 403
RetryStatusLines == StatusLines \cup {[status |-> 401, statusText |-> <<"Unauthorized">>],
                                      [status |-> 403, statusText |-> <<"Forbidden">>]}

InitRetry == InitEncode

NextRetry ==
  \/ \E keyName \in KeyNames, maxRetries \in 0..MaxRetries : RetryCall(keyName, maxRetries)
  \/ RetryAttempt
  \/ RetryExhausted
  \/ RetryReturn
  \/ RetryCatch
  \/ RetryDelayDone
  \/ /\ \/ \E c \in InFlight, error \in TransportErrors : GetFetchRejected(c, error)
        \/ \E c \in InFlight, line \in RetryStatusLines : GetFetchResolved(c, line)
        \/ \E c \in InFlight, body \in Bodies : GetJsonSettled(c, body)
     /\ UNCHANGED retry

SpecRetry == InitRetry /\ [][NextRetry]_vars

(* ------------------------------ properties ---------------------------- *)

\* a string is supplied when it is there and not empty
Supplied(v) == v.t = "string" /\ v.s # <<>>

\* t occurs in s
Contains(s, t) == \E i \in 0..(Len(s) - Len(t)) : SubSeq(s, i + 1, i + Len(t)) = t

\* the calls that the step put in flight
Started == {c \in BagToSet(calls') : CopiesIn(c, calls') > CopiesIn(c, calls) /\ c.pc = "fetch"}

Bearer(config) ==
  IF Supplied(config.secret_key)
    THEN Str(<<"Bearer ">> \o config.access_key.s \o <<":">> \o config.secret_key.s)
    ELSE Str(<<"Bearer ">> \o config.access_key.s)

\* C1: every request that get issues carries "Bearer {access_key}:{secret_key}"
\* when the client's configuration has a non-empty secret_key, and
\* "Bearer {access_key}" when it has none.
C1_AuthorizationHeader ==
  [][\A c \in Started :
       c.op = "get" =>
         /\ Len(c.sent) = 1
         /\ c.sent[1].headers["Authorization"] = Bearer(configObj)]_vars

C1_Witness ==
  \E c \in InFlight :
    /\ c.op = "get"
    /\ Supplied(configObj.secret_key)
    /\ c.sent[1].headers["Authorization"] = Str(<<"Bearer ">> \o AK1 \o <<":">> \o SK1)

FirstFailure(config) ==
  IF ~Supplied(config.access_key) THEN <<"Shhed access_key is required">>
  ELSE IF ~Supplied(config.projectId) THEN <<"Shhed projectId is required">>
  ELSE IF ~(/\ Len(config.access_key.s) >= 3
             /\ config.access_key.s[1] = "a"
             /\ config.access_key.s[2] = "k"
             /\ config.access_key.s[3] = "_")
    THEN <<"Shhed access_key must start with \"ak_\"">>
  ELSE IF Supplied(config.endpoint) /\ ~ParsesAsURL(config.endpoint.s)
    THEN <<"Shhed endpoint must be a valid URL">>
  ELSE <<>>

Constructing == client.constructed \/ ctorError # NoError

\* C2: construction checks, in this order, that access_key is not empty, that
\* projectId is not empty, that access_key starts with "ak_" and that a supplied
\* (non-empty) endpoint parses as a URL; it fails with the message of the first
\* check that fails and creates no client, and succeeds exactly when none fails.
C2_ValidationOrder ==
  Constructing =>
    IF FirstFailure(validated) = <<>>
      THEN client.constructed /\ ctorError = NoError
      ELSE /\ ~client.constructed
           /\ client = NoClient
           /\ ctorError.message = FirstFailure(validated)

C2_Witness ==
  /\ ctorError.message = <<"Shhed projectId is required">>
  /\ validated.access_key = Str(XK1)
  /\ ~client.constructed
\* the calls a caller can observe: those in flight and the one that settled last
Observed == {c.sent : c \in InFlight} \cup {settled.sent}

GetSettled == settled.op = "get"
Completed == settled.responded
Failure == settled.result.state = "rejected"
Err == settled.result.error

\* C3: every request get sends carries the access_key, secret_key and projectId
\* that were validated at construction, whatever the caller did to the
\* configuration object since.
C3_CredentialsNeverChange ==
  \A sent \in Observed :
    \A k \in 1..Len(sent) :
      "Authorization" \in DOMAIN sent[k].headers =>
        /\ sent[k].headers["Authorization"] = Bearer(validated)
        /\ sent[k].headers["X-Project-ID"] = validated.projectId

\* C4: a get whose request completes with a non-success status fails with a
\* ShhedSDKError whose statusCode is the HTTP status, whose message is the
\* body's detail when it has one and "HTTP {status}: {statusText}" otherwise,
\* and whose response is the parsed body.
C4_ServerFailure ==
  (GetSettled /\ Completed /\ ~(settled.status \in 200..299)) =>
    /\ Failure
    /\ Err.name = "ShhedSDKError"
    /\ Err.statusCode = settled.status
    /\ Err.message = IF Supplied(settled.body.detail)
                       THEN settled.body.detail.s
                       ELSE <<"HTTP ", ToString(settled.status), ": ">> \o settled.statusText
    /\ Err.response = settled.body

\* C5 as stated: a get whose request completes with a success status succeeds
\* and returns the key_value of the parsed body.
C5_SuccessAlways ==
  (GetSettled /\ Completed /\ settled.status \in 200..299) =>
    /\ settled.result.state = "fulfilled"
    /\ settled.result.value = settled.body.key_value

\* C5: a get whose request completes with a success status and a body that is
\* valid JSON and not null succeeds and returns the body's key_value (undefined
\* when the body has none), whether or not key_name is the requested name.
C5_SuccessValue ==
  (GetSettled /\ Completed /\ settled.status \in 200..299
     /\ settled.body.kind = "object") =>
    /\ settled.result.state = "fulfilled"
    /\ settled.result.value = settled.body.key_value

C5_Witness ==
  /\ GetSettled /\ Completed /\ settled.status = 200
  /\ settled.keyName = KSpace
  /\ settled.body.key_name = Str(K1)
  /\ settled.result = Fulfilled(Str(V1))

\* C6: when fetch rejects, get and test fail with a ShhedSDKError of statusCode 0
\* whose message contains the text of the rejection and, for get, the key name.
C6_TransportFailure ==
  settled.rejection # NoError =>
    /\ Failure
    /\ Err.name = "ShhedSDKError"
    /\ Err.statusCode = 0
    /\ Contains(Err.message, settled.rejection.message)
    /\ GetSettled => Contains(Err.message, settled.keyName)

C6_Witness ==
  /\ GetSettled
  /\ settled.keyName = KSpace
  /\ settled.rejection.message = <<"ECONNREFUSED">>
  /\ Err.statusCode = 0

\* C7: a ShhedSDKError of get or test has statusCode 0 exactly when no response
\* was received, and the status of the response when one was.
C7_ZeroMeansNoResponse ==
  (Failure /\ Err.name = "ShhedSDKError") =>
    /\ Err.statusCode = 0 <=> ~Completed
    /\ Completed => Err.statusCode = settled.status

C9_EmptyName ==
  /\ \A c \in InFlight : c.op = "get" => c.keyName # <<>>
  /\ (GetSettled /\ settled.keyName = <<>>) =>
       /\ Failure
       /\ Err.message = <<"Key name is required">>
       /\ settled.sent = <<>>
       /\ ~Completed /\ settled.rejection = NoError

C9_Witness ==
  /\ GetSettled
  /\ settled.keyName = <<>>
  /\ Failure
  /\ calls # EmptyBag

\* C10: the errors of construction and of get with an empty name are plain
\* errors, not ShhedSDKError; a ShhedSDKError is raised only by a call that
\* issued a request.
C10_PlainErrors ==
  /\ ctorError # NoError => ctorError.name = "Error"
  /\ (GetSettled /\ settled.keyName = <<>>) => Err.name = "Error"
  /\ Err.name = "ShhedSDKError" => Len(settled.sent) = 1

C10_Witness ==
  /\ ctorError.name = "Error"
  /\ ctorError.message = <<"Shhed endpoint must be a valid URL">>
TestSettled == settled.op = "test"

\* C11 as stated: every failure of get and of test, a failed precondition
\* included, is a ShhedSDKError.
C11_AllFailuresTyped ==
  Failure => Err.name = "ShhedSDKError"

\* C11: a failure of get or test is a ShhedSDKError exactly when the call issued
\* its request; a failure before the request (an empty or unencodable key name)
\* is an error of another type.
C11_TypedAfterRequest ==
  Failure => (Err.name = "ShhedSDKError" <=> Len(settled.sent) = 1)

C11_Witness ==
  /\ TestSettled /\ Failure
  /\ settled.rejection.message = <<"Failed to fetch">>
  /\ Err.name = "ShhedSDKError"

\* C12: a request of test has the Content-Type header and no other, whatever
\* the credentials of the client.
C12_TestUnauthenticated ==
  \A c \in InFlight \cup {settled} :
    c.op = "test" =>
      /\ Len(c.sent) = 1
      /\ DOMAIN c.sent[1].headers = {"Content-Type"}
      /\ c.sent[1].headers["Content-Type"] = Str(<<"application/json">>)

C12_Witness ==
  /\ Supplied(configObj.secret_key)
  /\ \E c \in InFlight : c.op = "test" /\ "Authorization" \notin DOMAIN c.sent[1].headers

\* C13: for a completed response test returns true when the status is a success
\* status, whatever the body, and otherwise fails with a ShhedSDKError whose
\* statusCode is the status and whose message is "Health check failed: HTTP
\* {status}"; it reads the body in neither case.
C13_HealthCheck ==
  (TestSettled /\ Completed) =>
    /\ ~settled.bodyUsed
    /\ IF settled.status \in 200..299
         THEN settled.result = Fulfilled(True)
         ELSE /\ Failure
              /\ Err.name = "ShhedSDKError"
              /\ Err.statusCode = settled.status
              /\ Err.message = <<"Health check failed: HTTP ", ToString(settled.status)>>

C13_Witness ==
  /\ TestSettled /\ Completed
  /\ settled.status = 200
  /\ settled.body.kind = "invalid"
  /\ settled.result = Fulfilled(True)
\* the step settles a call
Settles == settled' # settled

\* C14 as stated: a call issues one request at most, a get with a non-empty
\* name and a test exactly one.
C14_OneRequestIfNamed ==
  /\ \A c \in InFlight \cup {settled} : Len(c.sent) <= 1
  /\ (GetSettled /\ settled.keyName # <<>>) => Len(settled.sent) = 1
  /\ TestSettled => Len(settled.sent) = 1

\* C14: a call issues one request at most: a get whose name is not empty and can
\* be percent-encoded issues exactly one, as does every test; a get whose name
\* is empty or cannot be encoded issues none; and the step that settles a call
\* takes its request out of flight and puts no request in flight.
C14_OneRequestNoRetry ==
  [][/\ \A c \in BagToSet(calls') \cup {settled'} :
          /\ Len(c.sent) <= 1
          /\ c.op = "test" => Len(c.sent) = 1
          /\ c.op = "get" =>
               (Len(c.sent) = 1 <=>
                  (c.keyName # <<>> /\ \A k \in 1..Len(c.keyName) : c.keyName[k] # LoneSurrogate))
     /\ Settles =>
          BagCardinality(calls') = BagCardinality(calls) - Len(settled'.sent)]_vars

C14_Witness ==
  /\ GetSettled /\ Failure
  /\ settled.rejection # NoError
  /\ Len(settled.sent) = 1
  /\ calls = EmptyBag

SameCall(c, d) == c.op = d.op /\ c.keyName = d.keyName
SameResponse(c, d) ==
  /\ c.responded = d.responded /\ c.status = d.status /\ c.statusText = d.statusText
  /\ c.body = d.body /\ c.rejection = d.rejection

\* C15: a step of a call writes nothing of the client and changes no other call;
\* two calls with the same argument send the same request, and two calls with
\* the same argument and the same response settle alike, whatever else is in
\* flight.
C15_NoInterference ==
  [][/\ client.constructed => (client' = client /\ configObj' = configObj)
     /\ BagCardinality(calls (-) calls') <= 1
     /\ BagCardinality(calls' (-) calls) <= 1
     /\ \A c, d \in BagToSet(calls') \cup {settled'} :
          (SameCall(c, d) /\ c.sent # <<>> /\ d.sent # <<>>) => c.sent = d.sent
     /\ (SameCall(settled, settled') /\ SameResponse(settled, settled')) =>
          settled'.result = settled.result]_vars

C15_Witness ==
  /\ BagCardinality(calls) = 2
  /\ \E c, d \in InFlight : c.op = "get" /\ c.pc = "json" /\ d.op = "test"
  /\ GetSettled /\ Completed
\* the requests of the calls in flight and of the call that settled last
Requests == {<<c.op, c.keyName, c.sent[1].url>> : c \in {d \in InFlight \cup {settled} : d.sent # <<>>}}

\* the endpoint the client was constructed with, or the default
EffectiveEndpoint ==
  IF Supplied(validated.endpoint) THEN validated.endpoint.s ELSE <<"https://api.shhed.io">>

Path(op, keyName) ==
  IF op = "test" THEN <<"/health">> ELSE <<"/v1/keys/">> \o encodeURIComponent(keyName)

\* C16 as stated: a request goes to {base}/v1/keys/{encoded name} or to
\* {base}/health, where base is the endpoint or the default without trailing
\* slash, and does not end in "/".
C16_BaseWithoutSlash ==
  \A r \in Requests :
    \E n \in 1..Len(r[3]) :
      LET base == SubSeq(r[3], 1, n) IN
        /\ r[3] = base \o Path(r[1], r[2])
        /\ base[Len(base)] # "/"
        /\ \E m \in 0..Len(EffectiveEndpoint) :
             /\ base = SubSeq(EffectiveEndpoint, 1, m)
             /\ \A k \in (m+1)..Len(EffectiveEndpoint) : EffectiveEndpoint[k] = "/"

\* C16: a request goes to {base}/v1/keys/{encoded name} or to {base}/health,
\* where base is the endpoint supplied at construction, or https://api.shhed.io
\* when none was, without its last character when that is "/": one trailing
\* slash is dropped, so that base ends in "/" only when the endpoint ends in "//".
C16_BaseUrl ==
  \A r \in Requests :
    LET e == EffectiveEndpoint
        base == IF e[Len(e)] = "/" THEN SubSeq(e, 1, Len(e) - 1) ELSE e
    IN /\ r[3] = base \o Path(r[1], r[2])
       /\ base[Len(base)] = "/" <=> (Len(e) >= 2 /\ e[Len(e)] = "/" /\ e[Len(e) - 1] = "/")

C16_Witness ==
  /\ validated.endpoint = Str(EpSlash)
  /\ \E c \in InFlight : c.op = "get" /\ c.keyName = KSpace
       /\ c.sent[1].url = EpHost \o <<"/v1/keys/", "A", "%", "2", "0", "B">>
\* decodeURIComponent, for the escapes of the characters of NameChars
Escapes == (<<"2","0">> :> " ") @@ (<<"2","F">> :> "/") @@ (<<"3","F">> :> "?")
             @@ (<<"2","3">> :> "#") @@ (<<"2","5">> :> "%")

RECURSIVE Decode(_)
Decode(s) ==
  IF s = <<>> THEN <<>>
  ELSE IF s[1] # "%" THEN <<s[1]>> \o Decode(Tail(s))
  ELSE IF Len(s) >= 3 /\ <<s[2], s[3]>> \in DOMAIN Escapes
    THEN <<Escapes[<<s[2], s[3]>>]>> \o Decode(SubSeq(s, 4, Len(s)))
  ELSE <<"malformed">>

\* what follows "/v1/keys/" in a URL
Segment(url) ==
  LET i == CHOOSE k \in 1..Len(url) : url[k] = "/v1/keys/" IN SubSeq(url, i + 1, Len(url))

\* C17: the text after "/v1/keys/" in the URL of a get request has no "/", "?",
\* "#" or space of its own, decodes to the requested name, and has %20 for a space.
C17_PathSegment ==
  \A r \in Requests :
    r[1] = "get" =>
      /\ \E k \in 1..Len(r[3]) : r[3][k] = "/v1/keys/"
      /\ \A k \in 1..Len(Segment(r[3])) : Segment(r[3])[k] \notin {"/", "?", "#", " "}
      /\ Decode(Segment(r[3])) = r[2]
      /\ r[2] = <<"a", " ">> => Segment(r[3]) = <<"a", "%", "2", "0">>

C17_Witness ==
  \E c \in InFlight :
    /\ c.keyName = <<"/", "%">>
    /\ Segment(c.sent[1].url) = <<"%", "2", "F", "%", "2", "5">>
Typed == Failure /\ Err.name = "ShhedSDKError"
Resolved == settled.result.state = "fulfilled"

C19_EmptySecret ==
  validated.secret_key = Str(<<>>) =>
    /\ Constructing =>
         (client.constructed <=> FirstFailure([validated EXCEPT !.secret_key = Undefined]) = <<>>)
    /\ \A c \in InFlight \cup {settled} :
         (c.op = "get" /\ c.sent # <<>>) =>
           LET auth == c.sent[1].headers["Authorization"].s IN
             /\ auth = <<"Bearer ">> \o validated.access_key.s
             /\ \A k \in 1..Len(auth) : auth[k] # ":"

C19_Witness ==
  /\ validated.secret_key = Str(<<>>)
  /\ \E c \in InFlight :
       c.op = "get" /\ c.sent[1].headers["Authorization"] = Str(<<"Bearer ">> \o AK1)

\* C20: getKeyWithRetry(keyName, maxRetries) calls get at most maxRetries times;
\* it returns the value of the first attempt that succeeds and makes no attempt
\* after it; an attempt that fails with a ShhedSDKError of statusCode 401, 403
\* or 404 is rethrown at once, with no further attempt; and after maxRetries
\* failed attempts it throws the error of the last attempt.
Attempted == retry.pc = "await" /\ calls = EmptyBag
NoRetryError(result) ==
  /\ result.state = "rejected"
  /\ IsShhedSDKError(result.error)
  /\ result.error.statusCode \in {401, 403, 404}
C20_State ==
  /\ retry.gets <= retry.maxRetries
  /\ retry.pc = "done" /\ retry.gets >= 1 => retry.outcome = settled.result
  /\ retry.pc = "done" /\ retry.gets >= 1 /\ retry.gets < retry.maxRetries
       => settled.result.state = "fulfilled" \/ NoRetryError(settled.result)
C20_Step ==
  /\ Attempted /\ settled.result.state = "fulfilled"
       => /\ retry'.pc = "done" /\ retry'.outcome = Fulfilled(settled.result.value)
          /\ retry'.gets = retry.gets /\ calls' = calls
  /\ Attempted /\ NoRetryError(settled.result)
       => /\ retry'.pc = "done" /\ retry'.outcome = Rejected(settled.result.error)
          /\ retry'.gets = retry.gets /\ calls' = calls
  /\ Attempted /\ settled.result.state = "rejected" /\ ~NoRetryError(settled.result)
       => /\ retry'.pc # "done"
          /\ retry'.lastError = settled.result.error
  /\ retry.pc = "done" => retry'.gets = retry.gets /\ calls' = calls
  /\ calls' # calls /\ BagCardinality(calls') > BagCardinality(calls)
       => retry'.gets = retry.gets + 1
====
